---- MODULE Spec2Model ----
(***************************************************************************)
(* Model of the message-triage pipeline of gmail_drafts.py (function main  *)
(* and the helpers it calls).  One action per external call of the loop:   *)
(* the action covers the call and the code that follows it up to the next  *)
(* external call.  Every external call (Gmail API, LM endpoint) returns a  *)
(* nondeterministic outcome, including raising.                            *)
(*                                                                         *)
(* Text is modelled as a sequence of segments.  Sender headers and         *)
(* classifier answers are sequences of single characters, so that split,   *)
(* strip, lower and startswith are computed as the code computes them.     *)
(***************************************************************************)
EXTENDS Integers, Sequences, FiniteSets, TLC

\* ---------------------------------------------------------------- bounds
MaxInbox == 2          \* at most this many recent INBOX messages
MaxArg == 2            \* --max ranges over 1..MaxArg

\* ------------------------------------------------------ program constants
ListMultiplier == 10   \* maxResults=max_results * 10

None == "None"         \* Python's None (distinct from every thread id)
ThreadIds == {"t1", "t2"}
ERROR == <<"(error)">> \* the sentinel get_message_metadata returns on failure
NO_SUBJECT == <<"(no subject)">>
EMAIL_SIGNATURE == <<"Your Full Name", ", ", "Your Phone Number">>

Subjects == {ERROR, <<"Hi">>}
Senders == {ERROR, <<"A", "l", " ", "<", "a", ">">>}
Snippets == {<<>>, ERROR}
Whitespace == {" ", "\n", "\t"}

YES == <<"y", "e", "s">>
Answers == {<<"Y", "e", "s">>, <<" ", "y", "e", "s", ".">>, <<"N", "o">>, <<>>}
AIBodies == {<<"Sure.">>}

\* ------------------------------------------------------------ pure helpers
Min(a, b) == IF a < b THEN a ELSE b

\* str.lower() on one character
LowerChar(ch) ==
  CASE ch = "Y" -> "y"
    [] ch = "E" -> "e"
    [] ch = "S" -> "s"
    [] ch = "N" -> "n"
    [] ch = "O" -> "o"
    [] OTHER -> ch

Lower(s) == [k \in 1..Len(s) |-> LowerChar(s[k])]

RECURSIVE LStrip(_)
LStrip(s) ==
  IF s # <<>> /\ Head(s) \in Whitespace THEN LStrip(Tail(s)) ELSE s

RECURSIVE RStrip(_)
RStrip(s) ==
  IF s # <<>> /\ s[Len(s)] \in Whitespace
  THEN RStrip(SubSeq(s, 1, Len(s) - 1))
  ELSE s

\* str.strip()
Strip(s) == RStrip(LStrip(s))

\* str.startswith(prefix)
StartsWith(s, prefix) ==
  /\ Len(s) >= Len(prefix)
  /\ SubSeq(s, 1, Len(prefix)) = prefix

\* answer.strip().lower().startswith('yes')
AnswerIsYes(answer) == StartsWith(Lower(Strip(answer)), YES)

\* s.split(sep)[0]
RECURSIVE SplitFirst(_, _)
SplitFirst(s, sep) ==
  IF s = <<>> \/ Head(s) = sep
  THEN <<>>
  ELSE <<Head(s)>> \o SplitFirst(Tail(s), sep)

\* name = sender.split('<')[0].strip()
DisplayName(sndr) == Strip(SplitFirst(sndr, "<"))

get_template_reply(sender_name, subj) ==
  <<"Hi ">> \o sender_name \o <<",\n\n">>
  \o <<"Thanks for your message about '">> \o subj \o <<"'. ">>
  \o <<"I'll review and get back to you shortly.\n\n">>
  \o <<"Best regards,\n">>
  \o EMAIL_SIGNATURE

\* ------------------------------------------------------------------ state
VARIABLES
  args,            \* parsed command line
  inbox,           \* number of INBOX messages newer than --days
  inbox_label,     \* ids of the messages that still carry the INBOX label
  drafts,          \* mailbox: thread id -> number of drafts on that thread
  lm_client,       \* TRUE: an OpenAI client object, FALSE: None
  messages,        \* result of list_recent_messages
  pc,              \* position of main
  i,               \* loop index of enumerate(messages, 1)
  total_processed, drafts_created, ai_drafts, template_drafts,
  existing_drafts, emails_kept, emails_archived,
  subject, sender, snippet, thread_id,
  is_relevant, needs_reply, body,
  error,           \* name of the call whose exception left main, or "none"
  output,          \* lines printed by the summary
  cur,             \* history of the current iteration: calls made, outcome
  skipped_on_error \* history: iterations whose metadata fetch failed

counters == <<total_processed, drafts_created, ai_drafts, template_drafts,
              existing_drafts, emails_kept, emails_archived>>
locals == <<subject, sender, snippet, thread_id, is_relevant, needs_reply, body>>
mailbox == <<inbox_label, drafts>>
setup == <<args, inbox, lm_client, messages>>
vars == <<setup, mailbox, pc, i, counters, locals, error, output, cur,
          skipped_on_error>>

ThreadKeys == ThreadIds \cup {None}

CurInit ==
  [loaded |-> FALSE, reached_relevance |-> FALSE, rel |-> 0, needs |-> 0, lookup |-> 0,
   lookup_failed |-> FALSE, gen |-> 0, gen_failed |-> FALSE, create |-> 0,
   created_body |-> <<>>, archive |-> 0, action |-> "pending"]

ArgsSet ==
  [lm_url : {"", "http://localhost:1234/v1"},
   no_filter : BOOLEAN, archive : BOOLEAN, auto_draft : BOOLEAN,
   max : 1..MaxArg]

Init ==
  /\ args \in ArgsSet
  /\ inbox \in 0..MaxInbox
  /\ inbox_label = 1..inbox
  /\ drafts \in [ThreadKeys -> 0..1]
  /\ drafts[None] = 0
  /\ lm_client = FALSE
  /\ messages = <<>>
  /\ pc = "connect"
  /\ i = 0
  /\ total_processed = 0 /\ drafts_created = 0 /\ ai_drafts = 0
  /\ template_drafts = 0 /\ existing_drafts = 0 /\ emails_kept = 0
  /\ emails_archived = 0
  /\ subject = <<>> /\ sender = <<>> /\ snippet = <<>> /\ thread_id = None
  /\ is_relevant = FALSE /\ needs_reply = FALSE /\ body = <<>>
  /\ error = "none"
  /\ output = <<>>
  /\ cur = CurInit
  /\ skipped_on_error = 0


\* ------------------------------------------------- responses of the services
Absent == <<"<absent>">>   \* a header that the payload does not carry

\* what users().messages().get(...).execute() can do: raise, or return a message
MessageGetResults ==
  [ok : {FALSE}, Subject : {Absent}, From : {Absent}, snippet : {<<>>},
   threadId : {None}]
  \cup
  [ok : {TRUE}, Subject : Subjects \cup {Absent}, From : Senders,
   snippet : Snippets, threadId : ThreadKeys]

get_message_metadata(msg) ==
  IF msg.ok
  THEN [subject |-> IF msg.Subject = Absent THEN NO_SUBJECT ELSE msg.Subject,
        sender |-> IF msg.From = Absent THEN <<>> ELSE msg.From,
        snippet |-> msg.snippet,
        thread_id |-> msg.threadId]
  ELSE [subject |-> ERROR, sender |-> ERROR, snippet |-> ERROR,
        thread_id |-> None]

\* list_recent_messages: the ids of at most maxResults recent INBOX messages
list_recent_messages(max_results) ==
  [k \in 1..Min(inbox, max_results * ListMultiplier) |-> k]

\* has_existing_draft: a failed drafts().list() is reported as "no draft"
has_existing_draft(list_ok, tid) ==
  IF list_ok THEN drafts[tid] > 0 ELSE FALSE

\* ------------------------------------------------------------ control flow
\* lines 315-318: keep the email, no draft
Keep ==
  /\ emails_kept' = emails_kept + 1
  /\ pc' = "loop"

\* variant of FilterEnabled that forgets the --no-filter flag
FilterEnabled_IgnoresNoFilter == lm_client

\* line 270: if lm_client and not args.no_filter
FilterEnabled == lm_client /\ ~args.no_filter

\* line 285: if lm_client and args.auto_draft
AutoDraftEnabled == lm_client /\ args.auto_draft

\* lines 283-288 up to the needs_response call, 315-318 when it is not made
RelevantBranch(c) ==
  /\ needs_reply' = FALSE
  /\ IF AutoDraftEnabled
     THEN /\ pc' = "needs"
          /\ cur' = c
          /\ emails_kept' = emails_kept
     ELSE /\ Keep
          /\ cur' = [c EXCEPT !.action = "Keep"]

\* lines 232-244: build the LM client, None when the endpoint is unreachable
ConnectLM ==
  /\ pc = "connect"
  /\ \E reachable \in BOOLEAN :
       lm_client' = IF args.lm_url # "" THEN reachable ELSE FALSE
  /\ pc' = "list"
  /\ UNCHANGED <<args, inbox, messages, mailbox, i, counters, locals, error,
                 output, cur, skipped_on_error>>

\* lines 245-257: list the batch; an empty batch ends the run without summary
ListMessages ==
  /\ pc = "list"
  /\ \E list_ok \in BOOLEAN :
       IF list_ok
       THEN /\ messages' = list_recent_messages(args.max)
            /\ pc' = IF messages' = <<>> THEN "no_messages" ELSE "loop"
            /\ error' = error
       ELSE /\ messages' = messages
            /\ pc' = "aborted"
            /\ error' = "list_recent_messages"
  /\ UNCHANGED <<args, inbox, lm_client, mailbox, i, counters, locals, output,
                 cur, skipped_on_error>>

\* lines 259-272, 283-288, 315-318: next message, fetch metadata, skip on the
\* error sentinel, otherwise go on to the relevance step
GetMetadata ==
  /\ pc = "loop"
  /\ i < Len(messages)
  /\ i' = i + 1
  /\ total_processed' = total_processed + 1
  /\ \E msg \in MessageGetResults :
       LET m == get_message_metadata(msg)
           c == [CurInit EXCEPT !.loaded = msg.ok,
                                !.reached_relevance = (m.subject # ERROR)]
       IN /\ subject' = m.subject
          /\ sender' = m.sender
          /\ snippet' = m.snippet
          /\ thread_id' = m.thread_id
          /\ IF m.subject = ERROR
             THEN /\ pc' = "loop"
                  /\ cur' = [c EXCEPT !.action = "skipped"]
                  /\ skipped_on_error' =
                       IF msg.ok THEN skipped_on_error ELSE skipped_on_error + 1
                  /\ UNCHANGED <<is_relevant, needs_reply, emails_kept>>
             ELSE /\ is_relevant' = TRUE
                  /\ skipped_on_error' = skipped_on_error
                  /\ IF FilterEnabled
                     THEN /\ pc' = "relevance"
                          /\ cur' = c
                          /\ UNCHANGED <<needs_reply, emails_kept>>
                     ELSE RelevantBranch(c)
  /\ UNCHANGED <<setup, mailbox, drafts_created, ai_drafts, template_drafts,
                 existing_drafts, emails_archived, body, error, output>>

\* variant of NotRelevantBranch without the block at lines 273-281
NotRelevantBranch_FallsThrough(c) == RelevantBranch(c)

\* lines 273-281 without the archive call: a not-relevant message is reported
\* and the iteration ends, after archive_message when --archive is set
NotRelevantBranch(c) ==
  /\ pc' = IF args.archive THEN "archive" ELSE "loop"
  /\ cur' = [c EXCEPT !.action = "not_relevant"]
  /\ UNCHANGED <<needs_reply, emails_kept>>

\* variant of AfterArchive without the continue
AfterArchive_FallsThrough(c) == RelevantBranch(c)

\* line 281: continue, after the archive attempt
AfterArchive(c) ==
  /\ pc' = "loop"
  /\ cur' = c
  /\ UNCHANGED <<needs_reply, emails_kept>>

\* check_relevance / needs_response: the LM call raises or returns an answer
ClassifierResults == {[raised |-> TRUE, answer |-> <<>>]}
                     \cup [raised : {FALSE}, answer : Answers]

\* lines 270-281: relevance classification; not relevant ends the iteration
CheckRelevance ==
  /\ pc = "relevance"
  /\ \E r \in ClassifierResults :
       LET c == [cur EXCEPT !.rel = @ + 1] IN
       IF r.raised
       THEN /\ pc' = "aborted"
            /\ error' = "check_relevance"
            /\ cur' = c
            /\ UNCHANGED <<is_relevant, needs_reply, emails_kept>>
       ELSE /\ error' = error
            /\ is_relevant' = AnswerIsYes(r.answer)
            /\ IF ~is_relevant'
               THEN NotRelevantBranch(c)
               ELSE RelevantBranch(c)
  /\ UNCHANGED <<setup, mailbox, i, total_processed, drafts_created, ai_drafts,
                 template_drafts, existing_drafts, emails_archived, subject,
                 sender, snippet, thread_id, body, output, skipped_on_error>>

\* lines 156-165, 275-281: best-effort archive of a not-relevant message
ArchiveMessage ==
  /\ pc = "archive"
  /\ \E modify_ok \in BOOLEAN :
       /\ inbox_label' = IF modify_ok THEN inbox_label \ {messages[i]}
                         ELSE inbox_label
       /\ emails_archived' = IF modify_ok THEN emails_archived + 1
                             ELSE emails_archived
       /\ AfterArchive([cur EXCEPT !.archive = @ + 1,
                                   !.action = IF modify_ok THEN "Archive" ELSE @])
  /\ UNCHANGED <<setup, drafts, i, total_processed, drafts_created, ai_drafts,
                 template_drafts, existing_drafts, subject, sender, snippet,
                 thread_id, is_relevant, body, error, output,
                 skipped_on_error>>

\* lines 285-290, 315-318: response-need classification
NeedsResponse ==
  /\ pc = "needs"
  /\ \E r \in ClassifierResults :
       LET c == [cur EXCEPT !.needs = @ + 1] IN
       IF r.raised
       THEN /\ pc' = "aborted"
            /\ error' = "needs_response"
            /\ cur' = c
            /\ UNCHANGED <<needs_reply, emails_kept>>
       ELSE /\ error' = error
            /\ needs_reply' = AnswerIsYes(r.answer)
            /\ IF needs_reply'
               THEN /\ pc' = IF thread_id # None THEN "lookup" ELSE "generate"
                    /\ cur' = c
                    /\ emails_kept' = emails_kept
               ELSE /\ Keep
                    /\ cur' = [c EXCEPT !.action = "Keep"]
  /\ UNCHANGED <<setup, mailbox, i, total_processed, drafts_created, ai_drafts,
                 template_drafts, existing_drafts, emails_archived, subject,
                 sender, snippet, thread_id, is_relevant, body, output,
                 skipped_on_error>>

\* lines 168-178, 290-292: look for a draft on the thread
LookupDraft ==
  /\ pc = "lookup"
  /\ \E list_ok \in BOOLEAN :
       LET c == [cur EXCEPT !.lookup = @ + 1, !.lookup_failed = ~list_ok] IN
       IF has_existing_draft(list_ok, thread_id)
       THEN /\ existing_drafts' = existing_drafts + 1
            /\ pc' = "loop"
            /\ cur' = [c EXCEPT !.action = "Skip"]
       ELSE /\ existing_drafts' = existing_drafts
            /\ pc' = "generate"
            /\ cur' = c
  /\ UNCHANGED <<setup, mailbox, i, total_processed, drafts_created, ai_drafts,
                 template_drafts, emails_kept, emails_archived, locals, error,
                 output, skipped_on_error>>

\* generate_reply_body: the LM call raises (or its response is malformed), or
\* returns a stripped text
GenerateResults == {[raised |-> TRUE, text |-> <<>>]}
                   \cup [raised : {FALSE}, text : AIBodies]

\* variant of GenerationFailed without the except clause
GenerationFailed_Propagates ==
  /\ pc' = "aborted"
  /\ error' = "generate_reply_body"
  /\ UNCHANGED <<body, template_drafts, ai_drafts>>

\* lines 300-304: generation raised, fall back to the template
GenerationFailed ==
  /\ body' = get_template_reply(DisplayName(sender), subject)
  /\ template_drafts' = template_drafts + 1
  /\ ai_drafts' = ai_drafts
  /\ pc' = "create"
  /\ error' = error

\* lines 294-310: AI body, template body when generation raises or no client
GenerateReply ==
  /\ pc = "generate"
  /\ IF lm_client
     THEN \E r \in GenerateResults :
            /\ cur' = [cur EXCEPT !.gen = @ + 1, !.gen_failed = r.raised]
            /\ IF r.raised
               THEN GenerationFailed
               ELSE /\ body' = r.text
                    /\ ai_drafts' = ai_drafts + 1
                    /\ template_drafts' = template_drafts
                    /\ pc' = "create"
                    /\ error' = error
     ELSE /\ body' = get_template_reply(DisplayName(sender), subject)
          /\ template_drafts' = template_drafts + 1
          /\ ai_drafts' = ai_drafts
          /\ cur' = cur
          /\ pc' = "create"
          /\ error' = error
  /\ UNCHANGED <<setup, mailbox, i, total_processed, drafts_created,
                 existing_drafts, emails_kept, emails_archived, subject,
                 sender, snippet, thread_id, is_relevant, needs_reply,
                 output, skipped_on_error>>

\* lines 142-153, 312-314: save the draft on the thread
CreateDraft ==
  /\ pc = "create"
  /\ \E create_ok \in BOOLEAN :
       LET c == [cur EXCEPT !.create = @ + 1, !.created_body = body] IN
       IF create_ok
       THEN /\ drafts' = [drafts EXCEPT ![thread_id] = @ + 1]
            /\ drafts_created' = drafts_created + 1
            /\ pc' = "loop"
            /\ error' = error
            /\ cur' = [c EXCEPT !.action = IF cur.gen_failed \/ ~lm_client
                                           THEN "DraftTemplate" ELSE "DraftAI"]
       ELSE /\ drafts' = drafts
            /\ drafts_created' = drafts_created
            /\ pc' = "aborted"
            /\ error' = "create_draft"
            /\ cur' = c
  /\ UNCHANGED <<setup, inbox_label, i, total_processed, ai_drafts,
                 template_drafts, existing_drafts, emails_kept,
                 emails_archived, locals, output, skipped_on_error>>

\* lines 320-331: the lines of the summary, in print order
SummaryLines ==
  <<<<"Total processed", total_processed>>,
    <<"Drafts created", drafts_created>>>>
  \o (IF drafts_created > 0
      THEN <<<<"AI drafts", ai_drafts>>, <<"Template drafts", template_drafts>>>>
      ELSE <<>>)
  \o (IF existing_drafts > 0
      THEN <<<<"Existing drafts found", existing_drafts>>>>
      ELSE <<>>)
  \o <<<<"Emails kept", emails_kept>>>>
  \o (IF args.archive
      THEN <<<<"Emails archived", emails_archived>>>>
      ELSE <<>>)

\* lines 259, 320-331: the loop is exhausted, print the summary
Summary ==
  /\ pc = "loop"
  /\ i = Len(messages)
  /\ output' = SummaryLines
  /\ pc' = "done"
  /\ UNCHANGED <<setup, mailbox, i, counters, locals, error, cur,
                 skipped_on_error>>

Next ==
  \/ ConnectLM
  \/ ListMessages
  \/ GetMetadata
  \/ CheckRelevance
  \/ ArchiveMessage
  \/ NeedsResponse
  \/ LookupDraft
  \/ GenerateReply
  \/ CreateDraft
  \/ Summary

Spec == Init /\ [][Next]_vars

TypeOK ==
  /\ args \in ArgsSet
  /\ inbox \in 0..MaxInbox
  /\ inbox_label \subseteq 1..inbox
  /\ drafts \in [ThreadKeys -> Nat]
  /\ lm_client \in BOOLEAN
  /\ pc \in {"connect", "list", "no_messages", "loop", "relevance", "archive",
             "needs", "lookup", "generate", "create", "done", "aborted"}
  /\ i \in 0..Len(messages)
  /\ thread_id \in ThreadKeys
  /\ is_relevant \in BOOLEAN /\ needs_reply \in BOOLEAN
  /\ error \in {"none", "list_recent_messages", "check_relevance",
                "needs_response", "create_draft"}
  /\ cur.rel \in 0..1 /\ cur.needs \in 0..1 /\ cur.lookup \in 0..1
  /\ cur.gen \in 0..1 /\ cur.create \in 0..1 /\ cur.archive \in 0..1

\* ------------------------------------------------------------ properties
\* the current iteration is over: main is back at the loop head or printed
\* the summary
Finished == i > 0 /\ pc \in {"loop", "done"}

TemplateBody == get_template_reply(DisplayName(sender), subject)

\* C1: at the summary, processed == kept + archived + draftsCreated +
\* existingDraftsSkipped + skippedOnError, for every batch and every flag
\* combination, not-relevant messages included.
C1_CountersSum ==
  pc = "done" =>
    total_processed = emails_kept + emails_archived + drafts_created
                      + existing_drafts + skipped_on_error

\* C2: a check_relevance / needs_response call that raises abandons only the
\* iteration of that message; the run is not ended by it.
C2_ClassifierFailureContinues ==
  ~(pc = "aborted" /\ error \in {"check_relevance", "needs_response"})

\* C3: when generate_reply_body raises for a message, create_draft is invoked
\* exactly once for it, with the template body built from the sender's display
\* name and the subject; the template counter (not the AI counter) is
\* incremented and the generation error does not end the run.
C3_GenerationFailureFallsBack ==
  /\ [](cur.gen_failed =>
          /\ cur.gen = 1
          /\ pc \in {"create", "loop", "done", "aborted"}
          /\ pc = "create" => (body = TemplateBody /\ cur.create = 0)
          /\ pc # "create" => (/\ cur.create = 1
                               /\ cur.created_body = TemplateBody)
          /\ Finished => cur.action = "DraftTemplate"
          /\ pc = "aborted" => error = "create_draft")
  /\ [][(pc = "generate" /\ cur'.gen_failed) =>
          /\ template_drafts' = template_drafts + 1
          /\ ai_drafts' = ai_drafts
          /\ pc' = "create"]_vars

C3_Witness ==
  /\ cur.gen_failed
  /\ Finished
  /\ cur.create = 1
  /\ cur.created_body = <<"Hi ", "A", "l", ",\n\n",
                          "Thanks for your message about '", "Hi", "'. ",
                          "I'll review and get back to you shortly.\n\n",
                          "Best regards,\n",
                          "Your Full Name", ", ", "Your Phone Number">>
  /\ template_drafts = 1 /\ ai_drafts = 0 /\ drafts_created = 1

\* C4: reply generation and create_draft are never reached for a message
\* whose thread already has a draft in the mailbox, also when the draft-list
\* lookup fails; such a message ends as an existing-draft skip.
C4_NoSecondDraftOnThread ==
  /\ pc \in {"generate", "create"} =>
       (thread_id = None \/ drafts[thread_id] = 0)
  /\ (cur.lookup = 1 /\ cur.action # "Skip" /\ cur.create = 1 /\ Finished) =>
       drafts[thread_id] = 1

\* C5: for a message classified not relevant, none of needs_response,
\* has_existing_draft, generate_reply_body and create_draft is invoked,
\* whatever the flags: the iteration ends after the optional archive.
C5_NotRelevantNoDraft ==
  (cur.rel = 1 /\ ~is_relevant /\ pc # "aborted") =>
    /\ cur.needs = 0 /\ cur.lookup = 0 /\ cur.gen = 0 /\ cur.create = 0
    /\ cur.action \in {"not_relevant", "Archive"}
    /\ pc \in {"archive", "loop", "done"}

C5_Witness ==
  /\ cur.action = "not_relevant"
  /\ args.auto_draft /\ ~args.archive
  /\ Finished

\* C6: with the classifier absent or --no-filter set, check_relevance is not
\* called, no message is reported not relevant and none is archived, even
\* with --archive; a message that passes the load check has is_relevant true.
C6_FailOpen ==
  (~lm_client \/ args.no_filter) =>
    /\ cur.rel = 0 /\ cur.archive = 0
    /\ cur.action \notin {"not_relevant", "Archive"}
    /\ pc \notin {"relevance", "archive"}
    /\ emails_archived = 0
    /\ inbox_label = 1..inbox
    /\ cur.reached_relevance => is_relevant

C6_Witness ==
  /\ lm_client /\ args.no_filter /\ args.archive
  /\ cur.loaded /\ cur.reached_relevance
  /\ Finished /\ i = 2

\* C7: an iteration makes at most one mutating call, archive or create_draft,
\* never both; Keep, Skip, load-failure skips and not-relevant messages
\* without --archive make none; only the archive and create_draft steps
\* change the mailbox, the classification calls never do.
C7_AtMostOneMutation ==
  /\ [](/\ cur.archive + cur.create <= 1
        /\ cur.action \in {"Keep", "Skip", "skipped"} =>
             (cur.archive = 0 /\ cur.create = 0)
        /\ (cur.action = "not_relevant" /\ ~args.archive) =>
             (cur.archive = 0 /\ cur.create = 0))
  /\ [][(mailbox' # mailbox) =>
          /\ pc \in {"archive", "create"}
          /\ cur'.archive + cur'.create = 1]_vars

C7_Witness ==
  /\ cur.archive = 1 /\ cur.action = "Archive"
  /\ args.auto_draft
  /\ Finished
  /\ inbox_label # 1..inbox

\* C8: with the classifier absent or --auto-draft unset, needs_response is
\* never asked and no draft is created; every loaded message that is not
\* classified not relevant ends as Keep, and with the classifier absent a
\* batch of n loadable messages gives n kept, 0 drafts and no abort.
C8_NoAutoDraftKeeps ==
  (~lm_client \/ ~args.auto_draft) =>
    /\ cur.needs = 0 /\ cur.create = 0 /\ drafts_created = 0
    /\ (Finished /\ cur.loaded /\ cur.action \notin {"not_relevant", "Archive"})
         => cur.action = "Keep"
    /\ (~lm_client /\ pc = "done") =>
         emails_kept = total_processed - skipped_on_error
    /\ (~lm_client /\ messages # <<>>) => pc # "aborted"

\* C9: total processed in the summary is at most --max.
C9_ProcessedAtMostMax ==
  pc = "done" => total_processed <= args.max

\* C10: an iteration is skipped before classification if and only if the
\* metadata fetch failed; a loaded message, whatever its subject, sender or
\* snippet, proceeds to the relevance step.
C10_SkipIffLoadFailed ==
  i > 0 =>
    /\ cur.action = "skipped" <=> ~cur.loaded
    /\ cur.loaded <=> cur.reached_relevance
====
